---- MODULE Spec2Model ----
(***************************************************************************)
(* Model of hetzner/util.py: IPv4/IPv6 address parsing, formatting,        *)
(* family detection and prefix-to-range expansion.                         *)
(*                                                                         *)
(* Python integers are unbounded, so a value is never held in a machine    *)
(* integer here.  A Python int is the record [neg, b]:                     *)
(*   neg = FALSE : the value is the sum of 2^i for i in b                  *)
(*   neg = TRUE  : the value is -1 - (sum of 2^i for i in b), that is, b   *)
(*                 holds the positions where the two's complement          *)
(*                 expansion has a 0 bit.                                  *)
(* Every integer has exactly one such record, so record equality is        *)
(* integer equality.  Texts are sequences of one-character strings.        *)
(***************************************************************************)
EXTENDS Integers, Sequences, FiniteSets, TLC

VARIABLES pc, fn, num, prefix_len, addr, is_ipv6, ret, back, calls

vars == <<pc, fn, num, prefix_len, addr, is_ipv6, ret, back, calls>>

(***************************************************************************)
(* Bounds of the explored inputs.                                          *)
(***************************************************************************)
\* prefix lengths run from -MaxPrefixExcess to width + MaxPrefixExcess
MaxPrefixExcess == 3
\* numbers wider than the family get one of the bits width .. width+MaxOverflowBits-1
MaxOverflowBits == 2
\* generated texts have at most this many characters
MaxTextLen == 7

(***************************************************************************)
(* Python int arithmetic.                                                  *)
(***************************************************************************)
PyNat(s) == [neg |-> FALSE, b |-> s]

PyZero == PyNat({})

PyOne == PyNat({0})

\* ~x
py_invert(x) == [neg |-> ~x.neg, b |-> x.b]

\* x >> k for k >= 0 (floor division by 2^k, also for negative x)
py_rshift(x, k) == [neg |-> x.neg, b |-> {i - k : i \in {j \in x.b : j >= k}}]

\* x << k for k >= 0
py_lshift(x, k) ==
    IF x.neg
    THEN [neg |-> TRUE, b |-> {i + k : i \in x.b} \cup (0 .. (k - 1))]
    ELSE [neg |-> FALSE, b |-> {i + k : i \in x.b}]

\* x & y
py_and(x, y) ==
    CASE ~x.neg /\ ~y.neg -> PyNat(x.b \cap y.b)
      [] x.neg /\ ~y.neg  -> PyNat(y.b \ x.b)
      [] ~x.neg /\ y.neg  -> PyNat(x.b \ y.b)
      [] OTHER            -> [neg |-> TRUE, b |-> x.b \cup y.b]

\* x | y
py_or(x, y) ==
    CASE ~x.neg /\ ~y.neg -> PyNat(x.b \cup y.b)
      [] x.neg /\ ~y.neg  -> [neg |-> TRUE, b |-> x.b \ y.b]
      [] ~x.neg /\ y.neg  -> [neg |-> TRUE, b |-> y.b \ x.b]
      [] OTHER            -> [neg |-> TRUE, b |-> x.b \cap y.b]

SetMax(s) == CHOOSE m \in s : \A n \in s : n <= m

SetMin(s) == CHOOSE m \in s : \A n \in s : m <= n

\* the lowest position that is not in s
LowestFree(s) == IF s = {} THEN 0 ELSE SetMin((0 .. (SetMax(s) + 1)) \ s)

\* x - 1
py_dec(x) ==
    IF x.neg
    THEN LET l == LowestFree(x.b)
         IN [neg |-> TRUE, b |-> (x.b \ (0 .. (l - 1))) \cup {l}]
    ELSE IF x.b = {}
         THEN [neg |-> TRUE, b |-> {}]
         ELSE LET l == SetMin(x.b)
              IN PyNat((x.b \ {l}) \cup (0 .. (l - 1)))

\* x <= y
py_le(x, y) ==
    LET d == (x.b \ y.b) \cup (y.b \ x.b)
    IN CASE x.neg /\ ~y.neg -> TRUE
         [] ~x.neg /\ y.neg -> FALSE
         [] ~x.neg /\ ~y.neg -> d = {} \/ SetMax(d) \in y.b
         [] OTHER -> d = {} \/ SetMax(d) \in x.b

\* whether computing bit i of x - y borrows from bit i: the bits of x below
\* i are a smaller number than those of y below i
BorrowInto(x, y, i) ==
    LET d == {j \in (x \ y) \cup (y \ x) : j < i}
    IN d # {} /\ SetMax(d) \in y

\* x - y for 0 <= y <= x
py_sub(x, y) ==
    IF x.b = {} THEN PyZero
    ELSE PyNat({i \in 0 .. SetMax(x.b) :
                   ((i \in x.b) # (i \in y.b)) # BorrowInto(x.b, y.b, i)})

\* 2^k - 1
LowBits(k) == PyNat(0 .. (k - 1))

\* the bits of a 16-bit group value
Bits16(v) == {i \in 0 .. 15 : (v \div (2 ^ i)) % 2 = 1}

\* the integer whose big-endian 16-bit groups are g
FromGroups(g) ==
    PyNat(UNION {{i + 16 * (Len(g) - k) : i \in Bits16(g[k])} : k \in 1 .. Len(g)})

(***************************************************************************)
(* Results of a call.                                                      *)
(***************************************************************************)
NoRet == [kind |-> "none", val |-> <<>>]

\* an exception of type exc raised in function origin
Raise(exc, origin) == [kind |-> "raise", val |-> <<exc, origin>>]

Return(kind, val) == [kind |-> kind, val |-> val]

(***************************************************************************)
(* get_ipv4_range / get_ipv6_range                                         *)
(***************************************************************************)
\* variant: the mask keeps the low bits because it is not shifted back
get_ipv4_range_mask_not_shifted_back(numeric_netaddr, p) ==
    LET mask_inverted == 32 - p
    IN IF mask_inverted < 0
       THEN Raise("ValueError", "get_ipv4_range")
       ELSE LET mask_bin == py_rshift(FromGroups(<<\Hffff, \Hffff>>), mask_inverted)
                range_start == py_and(numeric_netaddr, mask_bin)
                range_end == py_or(range_start, py_dec(py_lshift(PyOne, mask_inverted)))
            IN Return("pair", <<range_start, range_end>>)

\* variant: the shift count is taken modulo the width, as a 32-bit machine shift does
get_ipv4_range_shift_modulo_width(numeric_netaddr, p) ==
    LET mask_inverted == 32 - p
    IN IF mask_inverted < 0
       THEN Raise("ValueError", "get_ipv4_range")
       ELSE LET mask_bin == py_lshift(py_rshift(FromGroups(<<\Hffff, \Hffff>>),
                                                mask_inverted % 32),
                                      mask_inverted % 32)
                range_start == py_and(numeric_netaddr, mask_bin)
                range_end == py_or(range_start, py_dec(py_lshift(PyOne, mask_inverted % 32)))
            IN Return("pair", <<range_start, range_end>>)

\* get_ipv4_range, lines 109-113.  Python raises ValueError("negative shift
\* count") for a negative right operand of >> (the first shift evaluated).
get_ipv4_range(numeric_netaddr, p) ==
    LET mask_inverted == 32 - p
    IN IF mask_inverted < 0
       THEN Raise("ValueError", "get_ipv4_range")
       ELSE LET mask_bin == py_lshift(py_rshift(FromGroups(<<\Hffff, \Hffff>>),
                                                mask_inverted),
                                      mask_inverted)
                range_start == py_and(numeric_netaddr, mask_bin)
                range_end == py_or(range_start, py_dec(py_lshift(PyOne, mask_inverted)))
            IN Return("pair", <<range_start, range_end>>)

\* variant: the mask is -1 << mask_inverted, which is not cut to 128 bits
get_ipv6_range_mask_not_truncated(numeric_netaddr, p) ==
    LET mask_inverted == 128 - p
    IN IF mask_inverted < 0
       THEN Raise("ValueError", "get_ipv6_range")
       ELSE LET mask_bin == py_lshift(py_invert(PyZero), mask_inverted)
                range_start == py_and(numeric_netaddr, mask_bin)
                range_end == py_or(range_start, py_dec(py_lshift(PyOne, mask_inverted)))
            IN Return("pair", <<range_start, range_end>>)

\* variant: the network address is used as the start without being masked
get_ipv6_range_start_not_masked(numeric_netaddr, p) ==
    LET mask_inverted == 128 - p
    IN IF mask_inverted < 0
       THEN Raise("ValueError", "get_ipv6_range")
       ELSE LET range_start == numeric_netaddr
                range_end == py_or(range_start, py_dec(py_lshift(PyOne, mask_inverted)))
            IN Return("pair", <<range_start, range_end>>)

\* get_ipv6_range, lines 134-139
get_ipv6_range(numeric_netaddr, p) ==
    LET mask_bin_full ==
            FromGroups(<<\Hffff, \Hffff, \Hffff, \Hffff, \Hffff, \Hffff, \Hffff, \Hffff>>)
        mask_inverted == 128 - p
    IN IF mask_inverted < 0
       THEN Raise("ValueError", "get_ipv6_range")
       ELSE LET mask_bin == py_lshift(py_rshift(mask_bin_full, mask_inverted), mask_inverted)
                range_start == py_and(numeric_netaddr, mask_bin)
                range_end == py_or(range_start, py_dec(py_lshift(PyOne, mask_inverted)))
            IN Return("pair", <<range_start, range_end>>)

(***************************************************************************)
(* Inputs.                                                                 *)
(***************************************************************************)
Width(f) == IF f \in {"get_ipv4_range", "ipv4_bin2addr"} THEN 32 ELSE 128

Nets4 ==
    {FromGroups(<<h, l>>) : h \in {0, \Ha1b2, \Hac10, \Hffff},
                            l \in {0, 1, \Hc3d4, \Hffff, \H8000}}

Nets6 ==
    {FromGroups(g) : g \in
        { <<0, 0, 0, 0, 0, 0, 0, 0>>,
          <<0, 0, 0, 0, 0, 0, 0, 1>>,
          <<\H0001, \H0203, \Hff05, \H0607, \H0809, \H1a1b, \H1c1d, \H1e1f>>,
          <<\H0001, \H0203, \H0405, \H0607, \H0809, \H1a1b, \H1c1d, \H1e1f>>,
          <<\H0001, \H0203, \H0405, \H0607, \Hf7f6, \He5e4, \He3e2, \He1e0>>,
          <<\H8000, 0, 0, 0, 0, 0, 0, 0>>,
          <<\H5555, \H5555, \H5555, \H5555, \H5555, \H5555, \H5555, \H5555>>,
          <<\Hffff, \Hffff, \Hffff, \Hffff, \Hffff, \Hffff, \Hffff, \Hffff>> }}

Nets(f) == IF Width(f) = 32 THEN Nets4 ELSE Nets6

\* a value of the family together with integers that do not fit its width:
\* the same low bits with one higher bit set, and the negative ~x
Widened(x, w) ==
    {x, py_invert(x)}
    \cup {PyNat(x.b \cup {w + k}) : k \in 0 .. (MaxOverflowBits - 1)}

Numbers(f) == UNION {Widened(x, Width(f)) : x \in Nets(f)}

InWidth(x, w) == ~x.neg /\ \A i \in x.b : i < w

PrefixLens(f) == (0 - MaxPrefixExcess) .. (Width(f) + MaxPrefixExcess)

RangeFns == {"get_ipv4_range", "get_ipv6_range"}

(***************************************************************************)
(* The range calls as a state machine.                                     *)
(***************************************************************************)
InitRange ==
    /\ pc = "call"
    /\ fn \in RangeFns
    /\ num \in Numbers(fn)
    /\ prefix_len \in PrefixLens(fn)
    /\ addr = <<>>
    /\ is_ipv6 = "None"
    /\ ret = NoRet
    /\ back = NoRet
    /\ calls = <<>>

GetIpv4Range ==
    /\ pc = "call"
    /\ fn = "get_ipv4_range"
    /\ ret' = get_ipv4_range(num, prefix_len)
    /\ pc' = "done"
    /\ UNCHANGED <<fn, num, prefix_len, addr, is_ipv6, back, calls>>

GetIpv6Range ==
    /\ pc = "call"
    /\ fn = "get_ipv6_range"
    /\ ret' = get_ipv6_range(num, prefix_len)
    /\ pc' = "done"
    /\ UNCHANGED <<fn, num, prefix_len, addr, is_ipv6, back, calls>>

NextRange == GetIpv4Range \/ GetIpv6Range

SpecRange == InitRange /\ [][NextRange]_vars

(***************************************************************************)
(* struct.pack / struct.unpack and the C library's inet_ntop / inet_pton,  *)
(* which the codec functions call.  A packed address is a sequence of      *)
(* bytes, most significant first.                                          *)
(***************************************************************************)
\* bits lo .. lo+n-1 of x as a number (n <= 16)
FieldOf(x, lo, n) ==
    LET f[j \in 0 .. n] ==
            IF j = n THEN 0 ELSE (IF (lo + j) \in x.b THEN 2 ^ j ELSE 0) + f[j + 1]
    IN f[0]

\* the n bytes of x, big-endian
BytesOf(x, n) == [k \in 1 .. n |-> FieldOf(x, 8 * (n - k), 8)]

\* the integer a big-endian byte sequence stands for
FromBytes(bs) ==
    PyNat(UNION {{i + 8 * (Len(bs) - k) : i \in Bits16(bs[k])} : k \in 1 .. Len(bs)})

\* struct.pack('!L', n): 4 bytes, struct.error unless 0 <= n <= 2^32 - 1
struct_pack_L(n) ==
    IF InWidth(n, 32) THEN Return("bytes", BytesOf(n, 4)) ELSE Raise("struct.error", "struct.pack")

\* struct.pack('!QQ', high, low): 16 bytes, struct.error unless both fit 64 bits
struct_pack_QQ(high, low) ==
    IF InWidth(high, 64) /\ InWidth(low, 64)
    THEN Return("bytes", BytesOf(high, 8) \o BytesOf(low, 8))
    ELSE Raise("struct.error", "struct.pack")

DigitChars == <<"0", "1", "2", "3", "4", "5", "6", "7", "8", "9">>

HexChars == DigitChars \o <<"a", "b", "c", "d", "e", "f">>

\* printf("%u") of a byte
DecText(n) ==
    IF n < 10 THEN <<DigitChars[n + 1]>>
    ELSE IF n < 100 THEN <<DigitChars[(n \div 10) + 1], DigitChars[(n % 10) + 1]>>
    ELSE <<DigitChars[(n \div 100) + 1], DigitChars[((n \div 10) % 10) + 1],
           DigitChars[(n % 10) + 1]>>

\* printf("%x") of a 16-bit word
HexText(n) ==
    LET d(k) == HexChars[((n \div (16 ^ k)) % 16) + 1]
    IN IF n < 16 THEN <<d(0)>>
       ELSE IF n < 256 THEN <<d(1), d(0)>>
       ELSE IF n < 4096 THEN <<d(2), d(1), d(0)>>
       ELSE <<d(3), d(2), d(1), d(0)>>

\* inet_ntop(AF_INET): "%u.%u.%u.%u" of the four bytes
inet_ntop4(src) ==
    DecText(src[1]) \o <<".">> \o DecText(src[2]) \o <<".">>
        \o DecText(src[3]) \o <<".">> \o DecText(src[4])

NoRun == [base |-> -1, len |-> 0]

\* the scan for the longest run of zero words: state after word i (0-based)
RECURSIVE ntop6_scan(_, _, _, _)
ntop6_scan(words, i, best, cur) ==
    IF i = 8
    THEN IF cur.base # -1 /\ (best.base = -1 \/ cur.len > best.len) THEN cur ELSE best
    ELSE IF words[i + 1] = 0
         THEN IF cur.base = -1
              THEN ntop6_scan(words, i + 1, best, [base |-> i, len |-> 1])
              ELSE ntop6_scan(words, i + 1, best, [cur EXCEPT !.len = cur.len + 1])
         ELSE IF cur.base # -1
              THEN ntop6_scan(words, i + 1,
                              IF best.base = -1 \/ cur.len > best.len THEN cur ELSE best,
                              NoRun)
              ELSE ntop6_scan(words, i + 1, best, cur)

\* variant: a run of a single zero word is kept as the best run
ntop6_best_single_zero_kept(words) == ntop6_scan(words, 0, NoRun, NoRun)

\* the run inet_ntop replaces by "::": the first longest run, dropped when
\* it is shorter than two words
ntop6_best(words) ==
    LET best == ntop6_scan(words, 0, NoRun, NoRun)
    IN IF best.base # -1 /\ best.len < 2 THEN NoRun ELSE best

\* the formatting loop from word i on; tp is the text written so far
RECURSIVE ntop6_format(_, _, _, _, _)
ntop6_format(src, words, best, i, tp) ==
    IF i = 8
    THEN IF best.base # -1 /\ best.base + best.len = 8 THEN tp \o <<":">> ELSE tp
    ELSE IF best.base # -1 /\ i >= best.base /\ i < best.base + best.len
         THEN ntop6_format(src, words, best, i + 1,
                           IF i = best.base THEN tp \o <<":">> ELSE tp)
         ELSE LET tp1 == IF i # 0 THEN tp \o <<":">> ELSE tp
              IN IF /\ i = 6
                    /\ best.base = 0
                    /\ (best.len = 6 \/ (best.len = 5 /\ words[6] = \Hffff))
                 THEN tp1 \o inet_ntop4(SubSeq(src, 13, 16))
                 ELSE ntop6_format(src, words, best, i + 1, tp1 \o HexText(words[i + 1]))

\* inet_ntop(AF_INET6) of 16 bytes
inet_ntop6(src) ==
    LET words == [k \in 1 .. 8 |-> src[2 * k - 1] * 256 + src[2 * k]]
    IN ntop6_format(src, words, ntop6_best(words), 0, <<>>)

IsDigit(ch) == \E k \in 1 .. 10 : DigitChars[k] = ch

DigitVal(ch) == (CHOOSE k \in 1 .. 10 : DigitChars[k] = ch) - 1

UpperHexChars == DigitChars \o <<"A", "B", "C", "D", "E", "F">>

\* -1 when ch is no hexadecimal digit
hex_digit_value(ch) ==
    IF \E k \in 1 .. 16 : HexChars[k] = ch
    THEN (CHOOSE k \in 1 .. 16 : HexChars[k] = ch) - 1
    ELSE IF \E k \in 1 .. 16 : UpperHexChars[k] = ch
         THEN (CHOOSE k \in 1 .. 16 : UpperHexChars[k] = ch) - 1
         ELSE -1

PtonFail == [ok |-> FALSE, bytes |-> <<>>]

PtonOk(bs) == [ok |-> TRUE, bytes |-> bs]

\* the loop of inet_pton4 from character i on; the last element of tmp is
\* the octet being read
RECURSIVE pton4_loop(_, _, _, _, _)
pton4_loop(src, i, tmp, saw_digit, octets) ==
    IF i > Len(src)
    THEN IF octets < 4 THEN PtonFail ELSE PtonOk(tmp)
    ELSE LET ch == src[i]
         IN IF IsDigit(ch)
            THEN LET new == tmp[Len(tmp)] * 10 + DigitVal(ch)
                 IN IF saw_digit /\ tmp[Len(tmp)] = 0 THEN PtonFail
                    ELSE IF new > 255 THEN PtonFail
                    ELSE IF ~saw_digit /\ octets + 1 > 4 THEN PtonFail
                    ELSE pton4_loop(src, i + 1, [tmp EXCEPT ![Len(tmp)] = new], TRUE,
                                    IF saw_digit THEN octets ELSE octets + 1)
            ELSE IF ch = "." /\ saw_digit
                 THEN IF octets = 4 THEN PtonFail
                      ELSE pton4_loop(src, i + 1, Append(tmp, 0), FALSE, octets)
                 ELSE PtonFail

\* inet_pton(AF_INET): strict dotted quad
inet_pton4(src) == pton4_loop(src, 1, <<0>>, FALSE, 0)

\* the end of inet_pton6: the pending word, then the expansion of "::"
pton6_finish(tp, colonp, xdigits_seen, val) ==
    IF xdigits_seen > 0 /\ Len(tp) + 2 > 16 THEN PtonFail
    ELSE LET tp1 == IF xdigits_seen > 0 THEN tp \o <<val \div 256, val % 256>> ELSE tp
         IN IF colonp # -1
            THEN IF Len(tp1) = 16 THEN PtonFail
                 ELSE PtonOk(SubSeq(tp1, 1, colonp)
                             \o [k \in 1 .. (16 - Len(tp1)) |-> 0]
                             \o SubSeq(tp1, colonp + 1, Len(tp1)))
            ELSE IF Len(tp1) # 16 THEN PtonFail ELSE PtonOk(tp1)

\* the loop of inet_pton6 from character i on; tp holds the bytes written,
\* colonp the number of bytes written before "::" (-1: none seen), curtok
\* the start of the current token
RECURSIVE pton6_loop(_, _, _, _, _, _, _)
pton6_loop(src, i, tp, colonp, curtok, xdigits_seen, val) ==
    IF i > Len(src)
    THEN pton6_finish(tp, colonp, xdigits_seen, val)
    ELSE LET ch == src[i]
             digit == hex_digit_value(ch)
         IN IF digit >= 0
            THEN IF xdigits_seen = 4 THEN PtonFail
                 ELSE IF val * 16 + digit > \Hffff THEN PtonFail
                 ELSE pton6_loop(src, i + 1, tp, colonp, curtok, xdigits_seen + 1,
                                 val * 16 + digit)
            ELSE IF ch = ":"
                 THEN IF xdigits_seen = 0
                      THEN IF colonp # -1 THEN PtonFail
                           ELSE pton6_loop(src, i + 1, tp, Len(tp), i + 1, 0, val)
                      ELSE IF i = Len(src) THEN PtonFail
                      ELSE IF Len(tp) + 2 > 16 THEN PtonFail
                      ELSE pton6_loop(src, i + 1, tp \o <<val \div 256, val % 256>>,
                                      colonp, i + 1, 0, 0)
                 ELSE IF ch = "." /\ Len(tp) + 4 <= 16
                      THEN LET v4 == inet_pton4(SubSeq(src, curtok, Len(src)))
                           IN IF v4.ok
                              THEN pton6_finish(tp \o v4.bytes, colonp, 0, val)
                              ELSE PtonFail
                      ELSE PtonFail

\* inet_pton(AF_INET6): a leading ":" must be the first half of "::"
inet_pton6(src) ==
    IF Len(src) = 0 THEN PtonFail
    ELSE IF src[1] = ":"
         THEN IF Len(src) = 1 \/ src[2] # ":" THEN PtonFail
              ELSE pton6_loop(src, 2, <<>>, -1, 2, 0, 0)
         ELSE pton6_loop(src, 1, <<>>, -1, 1, 0, 0)

(***************************************************************************)
(* parse_ipv4, parse_ipv6, parse_ipaddr, ipv4_bin2addr, ipv6_bin2addr      *)
(***************************************************************************)
\* parse_ipv4, lines 24-25; inet_pton raises socket.error on a bad text
parse_ipv4(a) ==
    LET binary_ip == inet_pton4(a)
    IN IF binary_ip.ok THEN Return("int", <<FromBytes(binary_ip.bytes)>>)
       ELSE Raise("socket.error", "parse_ipv4")

\* variant: the high half is shifted by 32 instead of 64
parse_ipv6_high_shifted_by_32(a) ==
    LET binary_ip == inet_pton6(a)
    IN IF binary_ip.ok
       THEN LET high == FromBytes(SubSeq(binary_ip.bytes, 1, 8))
                low == FromBytes(SubSeq(binary_ip.bytes, 9, 16))
            IN Return("int", <<py_or(py_lshift(high, 32), low)>>)
       ELSE Raise("socket.error", "parse_ipv6")

\* parse_ipv6, lines 45-47
parse_ipv6(a) ==
    LET binary_ip == inet_pton6(a)
    IN IF binary_ip.ok
       THEN LET high == FromBytes(SubSeq(binary_ip.bytes, 1, 8))
                low == FromBytes(SubSeq(binary_ip.bytes, 9, 16))
            IN Return("int", <<py_or(py_lshift(high, 64), low)>>)
       ELSE Raise("socket.error", "parse_ipv6")

\* variant: the number is cut to 32 bits before it is packed
ipv4_bin2addr_truncating(numeric_addr) ==
    Return("text", <<inet_ntop4(BytesOf(numeric_addr, 4))>>)

\* ipv4_bin2addr, lines 158-159
ipv4_bin2addr(numeric_addr) ==
    LET packed == struct_pack_L(numeric_addr)
    IN IF packed.kind = "raise" THEN packed
       ELSE Return("text", <<inet_ntop4(packed.val)>>)

\* ipv6_bin2addr, lines 178-181
ipv6_bin2addr(numeric_addr) ==
    LET high == py_rshift(numeric_addr, 64)
        low == py_and(numeric_addr, FromGroups(<<\Hffff, \Hffff, \Hffff, \Hffff>>))
        packed == struct_pack_QQ(high, low)
    IN IF packed.kind = "raise" THEN packed
       ELSE Return("text", <<inet_ntop6(packed.val)>>)

(***************************************************************************)
(* parse_ipaddr                                                            *)
(***************************************************************************)
\* variant: without a hint the IPv6 parser is tried first
parse_ipaddr_ipv6_first(a, hint) ==
    IF hint = "None"
    THEN LET r6 == parse_ipv6(a)
         IN IF r6.kind = "raise" /\ r6.val[1] = "socket.error"
            THEN LET r4 == parse_ipv4(a)
                 IN [ret |-> IF r4.kind = "raise" THEN r4
                             ELSE Return("tagged", <<FALSE, r4.val[1]>>),
                     calls |-> <<"parse_ipv6", "parse_ipv4">>]
            ELSE [ret |-> Return("tagged", <<TRUE, r6.val[1]>>), calls |-> <<"parse_ipv6">>]
    ELSE IF hint = "True"
         THEN [ret |-> parse_ipv6(a), calls |-> <<"parse_ipv6">>]
         ELSE [ret |-> parse_ipv4(a), calls |-> <<"parse_ipv4">>]

\* variant: with a hint, a failure of the hinted parser falls back to the other one
parse_ipaddr_hint_falls_back(a, hint) ==
    LET r4 == parse_ipv4(a)
        r6 == parse_ipv6(a)
    IN IF hint = "None"
       THEN IF r4.kind = "raise" /\ r4.val[1] = "socket.error"
            THEN [ret |-> IF r6.kind = "raise" THEN r6
                          ELSE Return("tagged", <<TRUE, r6.val[1]>>),
                  calls |-> <<"parse_ipv4", "parse_ipv6">>]
            ELSE [ret |-> Return("tagged", <<FALSE, r4.val[1]>>), calls |-> <<"parse_ipv4">>]
       ELSE IF hint = "True"
            THEN IF r6.kind = "raise"
                 THEN [ret |-> r4, calls |-> <<"parse_ipv6", "parse_ipv4">>]
                 ELSE [ret |-> r6, calls |-> <<"parse_ipv6">>]
            ELSE IF r4.kind = "raise"
                 THEN [ret |-> r6, calls |-> <<"parse_ipv4", "parse_ipv6">>]
                 ELSE [ret |-> r4, calls |-> <<"parse_ipv4">>]

\* parse_ipaddr, lines 80-88: the result and the parsers called, in order.
\* "except socket.error" catches only that exception type.
parse_ipaddr(a, hint) ==
    IF hint = "None"
    THEN LET r4 == parse_ipv4(a)
         IN IF r4.kind = "raise" /\ r4.val[1] = "socket.error"
            THEN LET r6 == parse_ipv6(a)
                 IN [ret |-> IF r6.kind = "raise" THEN r6
                             ELSE Return("tagged", <<TRUE, r6.val[1]>>),
                     calls |-> <<"parse_ipv4", "parse_ipv6">>]
            ELSE [ret |-> IF r4.kind = "raise" THEN r4
                          ELSE Return("tagged", <<FALSE, r4.val[1]>>),
                  calls |-> <<"parse_ipv4">>]
    ELSE IF hint = "True"
         THEN [ret |-> parse_ipv6(a), calls |-> <<"parse_ipv6">>]
         ELSE [ret |-> parse_ipv4(a), calls |-> <<"parse_ipv4">>]

\* the texts of the doctests and near misses of both notations
Literals ==
    { <<"1", "7", "4", ".", "2", "6", ".", "7", "2", ".", "8", "8">>,
      <<"0", ".", "0", ".", "0", ".", "0">>,
      <<"2", "5", "5", ".", "2", "5", "5", ".", "2", "5", "5", ".", "2", "5", "5">>,
      <<"9", "9", "9", ".", "9", "9", "9", ".", "9", "9", "9", ".", "9", "9", "9">>,
      <<":", ":", "f", "f", "f", "f", ":", "1", "9", "2", ".", "1", "6", "8", ".", "0", ".", "1">>,
      <<"f", "e", "8", "0", ":", ":", "f", "b", "d", "6", ":", "7", "8", "6", "0">>,
      <<"f", "f", "f", "f", ":", "f", "f", "f", "f", ":", "f", "f", "f", "f", ":", "f", "f", "f", "f", ":", "f", "f", "f", "f", ":", "f", "f", "f", "f", ":", "f", "f", "f", "f", ":", "f", "f", "f", "f">>,
      <<"1", ".", "2", ".", "3", ".", "4">>,
      <<"2", "5", "5", ".", "2", "5", "5", ".", "0", ".", "0">>,
      <<"d", "e", "a", "d", ":", ":", "b", "e", "e", "f">>,
      <<"f", "f", "f", "f", ":", ":", "f", "f", "f", "f">>,
      <<"i", "n", "v", "a", "l", "i", "d">>,
      <<"0", "1", ".", "2", ".", "3", ".", "4">>,
      <<"1", ".", "2", ".", "3", ".", "4", ".", "5">>,
      <<"1", ".", "2", ".", "3", ".", "2", "5", "6">>,
      <<"1", ":", "2", ":", "3", ":", "4", ":", "5", ":", "6", ":", "7", ":", "8">>,
      <<"D", "E", "A", "D", ":", ":", "B", "E", "E", "F">>,
      <<"1", "2", "3", "4", "5", ":", ":">>,
      <<"1", ":", ":", "2", ":", ":", "3">>,
      <<":", ":", "1", ".", "2", ".", "3", ".", "4">>,
      <<"1", ":", "2", ":", "3", ":", "4", ":", "5", ":", "6", ":", "1", ".", "2", ".", "3", ".", "4">>,
      <<" ", "1", ".", "2", ".", "3", ".", "4">>,
      <<"1", ".", "2", ".", "3", ".", "4", ":">>,
      <<"1", ":", "2", ":", "3", ":", "4", ":", "5", ":", "6", ":", "7", ":", ":">> }

\* every text of at most MaxTextLen characters over a digit and the separators
Alphabet == {"1", ".", ":"}

GeneratedTexts == UNION {[1 .. n -> Alphabet] : n \in 0 .. MaxTextLen}

Texts == Literals \cup GeneratedTexts

InitParse ==
    /\ pc = "call"
    /\ fn = "parse_ipaddr"
    /\ num = PyZero
    /\ prefix_len = 0
    /\ addr \in Texts
    /\ is_ipv6 \in {"None", "True", "False"}
    /\ ret = NoRet
    /\ back = NoRet
    /\ calls = <<>>

ParseIpaddr ==
    /\ pc = "call"
    /\ fn = "parse_ipaddr"
    /\ LET r == parse_ipaddr(addr, is_ipv6)
       IN ret' = r.ret /\ calls' = r.calls
    /\ pc' = "done"
    /\ UNCHANGED <<fn, num, prefix_len, addr, is_ipv6, back>>

NextParse == ParseIpaddr

SpecParse == InitParse /\ [][NextParse]_vars

(***************************************************************************)
(* Formatting followed by parsing the text back.                           *)
(***************************************************************************)
FormatFns == {"ipv4_bin2addr", "ipv6_bin2addr"}

Octets == {0, 1, 10, 174, 255}

Values4 ==
    {FromBytes(<<a, b, c, d>>) : a \in Octets, b \in Octets, c \in Octets, d \in Octets}

Words6 == {0, \Hffff, \H0dea}

Values6 ==
    {FromGroups(g) : g \in [1 .. 8 -> Words6]}
    \cup {FromGroups(g) : g \in
            { <<\H0102, \H0304, \H0506, \H0708, \H0910, \H1112, \H1314, \H1516>>,
              <<\Hffff, 0, 0, \H0dea, \Hd000, \H00be, \Hef00, 0>>,
              <<\H1234, 0, 0, 0, 0, 0, 0, \H00ff>> }}
    \cup Nets6

FormatInputs(f) ==
    IF f = "ipv4_bin2addr"
    THEN Values4 \cup UNION {Widened(x, 32) : x \in Nets4}
    ELSE Values6 \cup UNION {Widened(x, 128) : x \in Nets6}

InitCodec ==
    /\ pc = "call"
    /\ fn \in FormatFns
    /\ num \in FormatInputs(fn)
    /\ prefix_len = 0
    /\ addr = <<>>
    /\ is_ipv6 = "None"
    /\ ret = NoRet
    /\ back = NoRet
    /\ calls = <<>>

Ipv4Bin2Addr ==
    /\ pc = "call"
    /\ fn = "ipv4_bin2addr"
    /\ ret' = ipv4_bin2addr(num)
    /\ pc' = IF ret'.kind = "text" THEN "formatted" ELSE "done"
    /\ UNCHANGED <<fn, num, prefix_len, addr, is_ipv6, back, calls>>

Ipv6Bin2Addr ==
    /\ pc = "call"
    /\ fn = "ipv6_bin2addr"
    /\ ret' = ipv6_bin2addr(num)
    /\ pc' = IF ret'.kind = "text" THEN "formatted" ELSE "done"
    /\ UNCHANGED <<fn, num, prefix_len, addr, is_ipv6, back, calls>>

\* the text ipv4_bin2addr returned is given to parse_ipv4
ParseIpv4Back ==
    /\ pc = "formatted"
    /\ fn = "ipv4_bin2addr"
    /\ back' = parse_ipv4(ret.val[1])
    /\ pc' = "parsed"
    /\ UNCHANGED <<fn, num, prefix_len, addr, is_ipv6, ret, calls>>

\* the text ipv6_bin2addr returned is given to parse_ipv6
ParseIpv6Back ==
    /\ pc = "formatted"
    /\ fn = "ipv6_bin2addr"
    /\ back' = parse_ipv6(ret.val[1])
    /\ pc' = "parsed"
    /\ UNCHANGED <<fn, num, prefix_len, addr, is_ipv6, ret, calls>>

NextCodec == Ipv4Bin2Addr \/ Ipv6Bin2Addr \/ ParseIpv4Back \/ ParseIpv6Back

SpecCodec == InitCodec /\ [][NextCodec]_vars

(***************************************************************************)
(* Properties of the range functions (checked under SpecRange).            *)
(***************************************************************************)
RangeDone == pc = "done" /\ fn \in RangeFns

ValidPrefix == prefix_len >= 0 /\ prefix_len <= Width(fn)

HostBits == Width(fn) - prefix_len

AllOnes(w) == LowBits(w)

RangeFn(f, a, p) ==
    IF f = "get_ipv4_range" THEN get_ipv4_range(a, p) ELSE get_ipv6_range(a, p)

\* C1: for a network address within the width and a prefix length in
\* [0, width], the call returns (start, end) with start prefix-aligned,
\* start <= end and end - start = 2^(width - prefix_len) - 1; in particular
\* get_ipv4_range(0xac100000, 12) = (0xac100000, 0xac1fffff)
\* = (2886729728, 2887778303).
C1_RangeCorrect ==
    (RangeDone /\ ValidPrefix /\ InWidth(num, Width(fn))) =>
        /\ ret.kind = "pair"
        /\ py_and(ret.val[1], LowBits(HostBits)) = PyZero
        /\ py_le(ret.val[1], ret.val[2])
        /\ py_sub(ret.val[2], ret.val[1]) = LowBits(HostBits)
        /\ (fn = "get_ipv4_range" /\ num = FromGroups(<<\Hac10, 0>>) /\ prefix_len = 12) =>
               ret.val = <<FromGroups(<<\Hac10, 0>>), FromGroups(<<\Hac1f, \Hffff>>)>>

C1_Witness ==
    /\ RangeDone
    /\ fn = "get_ipv6_range"
    /\ prefix_len = 36
    /\ num = FromGroups(<<\H0001, \H0203, \Hff05, \H0607, \H0809, \H1a1b, \H1c1d, \H1e1f>>)
    /\ ret.kind = "pair"
    /\ ret.val[1] # num
    /\ ret.val[1] # ret.val[2]

\* C2: with prefix_len = 0 the range is the whole address space
\* (0, 2^width - 1) whatever the address, and with prefix_len = width it is
\* the single address (x, x).
C2_BoundaryPrefixes ==
    (RangeDone /\ InWidth(num, Width(fn))) =>
        /\ prefix_len = 0 =>
               ret = Return("pair", <<PyZero, AllOnes(Width(fn))>>)
        /\ prefix_len = Width(fn) =>
               ret = Return("pair", <<num, num>>)

C2_Witness ==
    /\ RangeDone
    /\ fn = "get_ipv4_range"
    /\ prefix_len = 0
    /\ num = FromGroups(<<\Ha1b2, \Hc3d4>>)
    /\ ret.kind = "pair"

\* C3: every prefix_len outside [0, width] makes the call fail with an
\* error, a negative one as much as one above the width.
C3_OutOfRangePrefixRaises ==
    (RangeDone /\ ~ValidPrefix) => ret.kind = "raise"

\* C3, the part the code keeps: a prefix_len above the width raises
\* ValueError and returns nothing.
C3_PrefixAboveWidthRaises ==
    (RangeDone /\ prefix_len > Width(fn)) => ret = Raise("ValueError", fn)

\* C9: for a prefix length in [0, width] and any integer address, also one
\* of more than width bits and a negative one, the call returns a pair with
\* 0 <= start <= end <= 2^width - 1.
C9_ResultWithinWidth ==
    (RangeDone /\ ValidPrefix) =>
        /\ ret.kind = "pair"
        /\ py_le(PyZero, ret.val[1])
        /\ py_le(ret.val[1], ret.val[2])
        /\ py_le(ret.val[2], AllOnes(Width(fn)))

C9_Witness ==
    /\ RangeDone
    /\ ValidPrefix
    /\ prefix_len > 0
    /\ num.neg
    /\ ret.kind = "pair"
    /\ ret.val[1] # PyZero

\* the members of [start, end] the model looks at: the two ends, every
\* input address inside, and start with the host bits of every input address
RangeMembers ==
    {ret.val[1], ret.val[2]}
    \cup {a \in Nets(fn) : py_le(ret.val[1], a) /\ py_le(a, ret.val[2])}
    \cup {py_or(ret.val[1], py_and(o, LowBits(HostBits))) : o \in Nets(fn)}

\* C10: net lies in its own range, and every address of the range gives the
\* same range back; in particular range(start, prefix_len) = (start, end).
C10_RangeOfAnyMember ==
    (RangeDone /\ ValidPrefix /\ InWidth(num, Width(fn))) =>
        /\ ret.kind = "pair"
        /\ py_le(ret.val[1], num) /\ py_le(num, ret.val[2])
        /\ \A a \in RangeMembers :
               /\ py_le(ret.val[1], a) /\ py_le(a, ret.val[2])
               /\ RangeFn(fn, a, prefix_len) = ret

C10_Witness ==
    /\ RangeDone
    /\ InWidth(num, Width(fn))
    /\ prefix_len > 0 /\ prefix_len < Width(fn)
    /\ ret.kind = "pair"
    /\ \E a \in Nets(fn) :
           /\ a \notin {num, ret.val[1], ret.val[2]}
           /\ py_le(ret.val[1], a) /\ py_le(a, ret.val[2])

(***************************************************************************)
(* Properties of formatting and of the round trip (checked under           *)
(* SpecCodec).                                                             *)
(***************************************************************************)
Formatted == fn \in FormatFns /\ pc # "call"

\* the text parsed back is the number that was formatted
RoundTrips == back = Return("int", <<num>>)

\* C4: every integer within the width is formatted to a text, and parsing
\* that text gives the integer back: parse_ipv4(ipv4_bin2addr(v)) = v for
\* 0 <= v < 2^32 and parse_ipv6(ipv6_bin2addr(v)) = v for 0 <= v < 2^128.
C4_RoundTrip ==
    (Formatted /\ InWidth(num, Width(fn))) =>
        /\ ret.kind = "text"
        /\ pc = "parsed" => RoundTrips

C4_Witness ==
    /\ pc = "parsed"
    /\ fn = "ipv6_bin2addr"
    /\ \E i \in num.b : i >= 64
    /\ \E i \in num.b : i < 64
    /\ RoundTrips

\* the eight 16-bit groups of the number being formatted, first group first
Groups8 == [k \in 1 .. 8 |-> FieldOf(num, 16 * (8 - k), 16)]

\* the maximal runs of zero groups of g, as <<first, length>>
ZeroRuns(g) ==
    {r \in (1 .. 8) \X (1 .. 8) :
        /\ r[1] + r[2] - 1 <= 8
        /\ \A k \in r[1] .. (r[1] + r[2] - 1) : g[k] = 0
        /\ r[1] = 1 \/ g[r[1] - 1] # 0
        /\ r[1] + r[2] - 1 = 8 \/ g[r[1] + r[2]] # 0}

\* the runs of at least min groups that no run is longer than and no equally
\* long run precedes: empty, or the one run to replace
LeftmostLongest(g, min) ==
    {r \in ZeroRuns(g) :
        /\ r[2] >= min
        /\ \A q \in ZeroRuns(g) : q[2] < r[2] \/ (q[2] = r[2] /\ q[1] >= r[1])}

\* groups from..to of g in lowercase hexadecimal, joined by ":"
HexJoin(g, from, to) ==
    LET f[k \in from .. (to + 1)] ==
            IF k > to THEN <<>>
            ELSE IF k = to THEN HexText(g[k])
            ELSE HexText(g[k]) \o <<":">> \o f[k + 1]
    IN f[from]

\* g written with the given runs (none or one) replaced by "::"
Shortened(g, runs) ==
    IF runs = {} THEN HexJoin(g, 1, 8)
    ELSE LET r == CHOOSE q \in runs : TRUE
         IN HexJoin(g, 1, r[1] - 1) \o <<":", ":">> \o HexJoin(g, r[1] + r[2], 8)

\* the values inet_ntop writes with a dotted quad: ::a.b.c.d with a
\* non-zero seventh group, and ::ffff:a.b.c.d
EmbedsIpv4(g) ==
    /\ \A k \in 1 .. 5 : g[k] = 0
    /\ (g[6] = 0 /\ g[7] # 0) \/ g[6] = \Hffff

DottedTail(g) ==
    inet_ntop4(<<g[7] \div 256, g[7] % 256, g[8] \div 256, g[8] % 256>>)

\* C7 as stated: the leftmost longest run of one or more zero groups is
\* replaced by "::", a run of a single group too, and every other group is
\* written in lowercase hexadecimal without leading zeros.
C7_LongestRunOfOneOrMore ==
    (Formatted /\ fn = "ipv6_bin2addr" /\ ret.kind = "text") =>
        ret.val[1] = Shortened(Groups8, LeftmostLongest(Groups8, 1))

\* C7 as the code has it: the leftmost longest run of two or more zero
\* groups is replaced by "::" and a lone zero group is written "0"; the
\* other groups are lowercase hexadecimal without leading zeros, except
\* that ::a.b.c.d (seventh group non-zero) and ::ffff:a.b.c.d end in the
\* dotted quad of the last 32 bits.  0xffff000000000dead00000beef000000
\* gives "ffff::dea:d000:be:ef00:0", 0x123400000000000000000000000000ff
\* gives "1234::ff".
C7_LongestRunOfTwoOrMore ==
    (Formatted /\ fn = "ipv6_bin2addr" /\ ret.kind = "text") =>
        /\ ~EmbedsIpv4(Groups8) =>
               ret.val[1] = Shortened(Groups8, LeftmostLongest(Groups8, 2))
        /\ (EmbedsIpv4(Groups8) /\ Groups8[6] = 0) =>
               ret.val[1] = <<":", ":">> \o DottedTail(Groups8)
        /\ (EmbedsIpv4(Groups8) /\ Groups8[6] = \Hffff) =>
               ret.val[1] = <<":", ":", "f", "f", "f", "f", ":">> \o DottedTail(Groups8)
        /\ Groups8 = <<\Hffff, 0, 0, \H0dea, \Hd000, \H00be, \Hef00, 0>> =>
               ret.val[1] = <<"f", "f", "f", "f", ":", ":", "d", "e", "a", ":", "d", "0", "0", "0", ":", "b", "e", ":", "e", "f", "0", "0", ":", "0">>
        /\ Groups8 = <<\H1234, 0, 0, 0, 0, 0, 0, \H00ff>> =>
               ret.val[1] = <<"1", "2", "3", "4", ":", ":", "f", "f">>

\* a value whose longest zero run is a single group has been formatted
C7_Witness ==
    /\ Formatted
    /\ fn = "ipv6_bin2addr"
    /\ ret.kind = "text"
    /\ ~EmbedsIpv4(Groups8)
    /\ \E r \in LeftmostLongest(Groups8, 1) : r[2] = 1
    /\ \A k \in 1 .. Len(ret.val[1]) - 1 : ~(ret.val[1][k] = ":" /\ ret.val[1][k + 1] = ":")

\* C8: a number outside the width is not formatted: ipv4_bin2addr fails for
\* every integer outside [0, 2^32 - 1] and ipv6_bin2addr for every integer
\* outside [0, 2^128 - 1], negative ones included, and no text is returned.
C8_OutOfWidthRejected ==
    (Formatted /\ ~InWidth(num, Width(fn))) =>
        /\ ret = Raise("struct.error", "struct.pack")
        /\ pc = "done"
        /\ back = NoRet

C8_Witness ==
    /\ Formatted
    /\ fn = "ipv6_bin2addr"
    /\ num.neg
    /\ ret.kind = "raise"

(***************************************************************************)
(* Properties of parse_ipaddr (checked under SpecParse).                   *)
(***************************************************************************)
ParseDone == pc = "done" /\ fn = "parse_ipaddr"

\* C5: without a hint the IPv4 parser is tried first; when it succeeds the
\* result is (False, value) and the IPv6 parser is not called; when it fails
\* the IPv6 parser is tried, giving (True, value); when both fail the error
\* is the IPv6 parser's.  A valid IPv4 literal is never reported as IPv6,
\* and parse_ipaddr('1.2.3.4') = (False, 16909060).
C5_Ipv4FirstThenIpv6 ==
    (ParseDone /\ is_ipv6 = "None") =>
        LET v4 == inet_pton4(addr)
            v6 == inet_pton6(addr)
        IN /\ calls[1] = "parse_ipv4"
           /\ v4.ok =>
                  /\ calls = <<"parse_ipv4">>
                  /\ ret = Return("tagged", <<FALSE, FromBytes(v4.bytes)>>)
           /\ (~v4.ok /\ v6.ok) =>
                  /\ calls = <<"parse_ipv4", "parse_ipv6">>
                  /\ ret = Return("tagged", <<TRUE, FromBytes(v6.bytes)>>)
           /\ (~v4.ok /\ ~v6.ok) =>
                  /\ calls = <<"parse_ipv4", "parse_ipv6">>
                  /\ ret = Raise("socket.error", "parse_ipv6")
           /\ addr = <<"1", ".", "2", ".", "3", ".", "4">> =>
                  ret = Return("tagged", <<FALSE, FromGroups(<<\H0102, \H0304>>)>>)

C5_Witness ==
    /\ ParseDone
    /\ is_ipv6 = "None"
    /\ addr = <<"d", "e", "a", "d", ":", ":", "b", "e", "e", "f">>
    /\ calls = <<"parse_ipv4", "parse_ipv6">>
    /\ ret.kind = "tagged"
    /\ ret.val[1] = TRUE

\* C6: with a hint only the parser of the hinted family is called, the
\* result is the bare number, and a text that is valid only in the other
\* family makes the call fail.
C6_HintEnforcesFamily ==
    (ParseDone /\ is_ipv6 # "None") =>
        LET v4 == inet_pton4(addr)
            v6 == inet_pton6(addr)
        IN /\ is_ipv6 = "True" =>
                  /\ calls = <<"parse_ipv6">>
                  /\ v6.ok => ret = Return("int", <<FromBytes(v6.bytes)>>)
                  /\ ~v6.ok => ret = Raise("socket.error", "parse_ipv6")
                  /\ v4.ok => ret.kind = "raise"
           /\ is_ipv6 = "False" =>
                  /\ calls = <<"parse_ipv4">>
                  /\ v4.ok => ret = Return("int", <<FromBytes(v4.bytes)>>)
                  /\ ~v4.ok => ret = Raise("socket.error", "parse_ipv4")
                  /\ v6.ok => ret.kind = "raise"

C6_Witness ==
    /\ ParseDone
    /\ is_ipv6 = "True"
    /\ addr = <<"1", ".", "2", ".", "3", ".", "4">>
    /\ inet_pton4(addr).ok
    /\ ret.kind = "raise"

====
